---- MODULE Spec2Model ----
(***************************************************************************)
(* A model of vcardtools: the command line driver main() of                *)
(* src/vcardtools.py (option setup, destination and input checks, the      *)
(* group / merge / write loops, the filename sanitiser) together with the  *)
(* matching, grouping and merging engine of vcardlib that main() drives.   *)
(* vcardlib is imported by src/vcardtools.py but its text is not part of   *)
(* src/; its operators are written from spec.md sections 4.1 - 4.4.        *)
(*                                                                         *)
(* Strings are sequences of one-character strings.                         *)
(***************************************************************************)
EXTENDS Integers, Sequences, FiniteSets, TLC

VARIABLES
    pc,          \* position of main(): start, setup, checkdest, checkfiles,
                 \* parse, group, loop, ungrouped, nogroup, done, exit (and
                 \* compared, after a comparison)
    args,        \* the argparse namespace (None before parse_args)
    opt,         \* the vcardlib.OPTION_* globals
    fopt,        \* the OPTION_*_FILENAME globals of vcardtools.py
    order,       \* iteration order of the vcards dict (sequence of keys)
    vcards,      \* the vcards dict: key -> record
    vcards_grouped,      \* group name -> sequence of keys
    vcards_not_grouped,  \* sequence of keys
    todo,        \* what is left of sorted(vcards_grouped.items())
    dirs,        \* directories created by the run (paths)
    files,       \* files written by the run: path -> record
    written,     \* the destination path of every write, in order
    handled,     \* key -> number of times main() wrote or merged the record
    merged,      \* group name -> the members' records and the merged record
    status,      \* exit status of the process (-1 while running)
    err,         \* the group key named by the RuntimeError ("" if none)
    interrupted, \* a KeyboardInterrupt was delivered
    cmp          \* the comparator's answers on one pair of records

vars == <<pc, args, opt, fopt, order, vcards, vcards_grouped, vcards_not_grouped,
          todo, dirs, files, written, handled, merged, status, err, interrupted,
          cmp>>

(***************************************************************************)
(* Bounds of the model.                                                    *)
(***************************************************************************)
\* largest number of records the parser returns
MaxRecords == 3
\* longest attribute value handed to the comparator
MaxLen == 3
\* largest --match-max-distance tried
MaxDistance == 2

(***************************************************************************)
(* Characters and strings.                                                 *)
(***************************************************************************)
None == "None"

\* code point of a character (Python compares str by code point)
Ord(c) ==
    CASE c = " " -> 32
      [] c = "-" -> 45
      [] c = "." -> 46
      [] c = "/" -> 47
      [] c = "1" -> 49
      [] c = "2" -> 50
      [] c = "A" -> 65
      [] c = "_" -> 95
      [] c = "a" -> 97
      [] c = "b" -> 98
      [] c = "c" -> 99
      [] c = "e" -> 101
      [] c = "E9" -> 233   \* e with acute accent
      [] OTHER -> 255

\* str.lower() on one character
LowerChar(c) == IF c = "A" THEN "a" ELSE c

\* unidecode() on one character: the ASCII transliteration
UnidecodeChar(c) == IF c = "E9" THEN <<"e">> ELSE <<c>>

RECURSIVE Unidecode(_)
Unidecode(s) ==
    IF s = <<>> THEN <<>> ELSE UnidecodeChar(Head(s)) \o Unidecode(Tail(s))

Lower(s) == [i \in 1..Len(s) |-> LowerChar(s[i])]

\* Python's a < b on str
RECURSIVE StrLess(_, _)
StrLess(a, b) ==
    IF a = <<>> THEN b # <<>>
    ELSE IF b = <<>> THEN FALSE
    ELSE IF Head(a) # Head(b) THEN Ord(Head(a)) < Ord(Head(b))
    ELSE StrLess(Tail(a), Tail(b))

\* the sequences over alphabet of length lo..hi
StringsOver(alphabet, lo, hi) ==
    UNION {[1..n -> alphabet] : n \in lo..hi}

\* sorted(): the elements of set S (strings) in increasing order
RECURSIVE SortedSeq(_)
SortedSeq(S) ==
    IF S = {} THEN <<>>
    ELSE LET m == CHOOSE x \in S : \A y \in S \ {x} : StrLess(x, y)
         IN  <<m>> \o SortedSeq(S \ {m})

\* the values of sequence s, as a set
Range(s) == {s[i] : i \in 1..Len(s)}

\* s without repeated values, first occurrences kept in order
RECURSIVE Dedup(_)
Dedup(s) ==
    IF s = <<>> THEN <<>>
    ELSE LET r == Dedup(SubSeq(s, 1, Len(s) - 1))
             x == s[Len(s)]
         IN  IF x \in Range(r) THEN r ELSE Append(r, x)

(***************************************************************************)
(* sanitise_name, generate_vcard_filename, generate_group_dirname.         *)
(***************************************************************************)
\* the characters of invalid_characters that the model's alphabet holds
InvalidCharacters == {".", "/"}

\* re.sub('[bad]+', rep, s): every maximal run of characters of bad becomes rep
RECURSIVE ReSubRuns(_, _, _)
ReSubRuns(s, bad, rep) ==
    IF s = <<>> THEN <<>>
    ELSE IF Head(s) \in bad
         THEN IF Len(s) > 1 /\ s[2] \in bad
              THEN ReSubRuns(Tail(s), bad, rep)
              ELSE rep \o ReSubRuns(Tail(s), bad, rep)
         ELSE <<Head(s)>> \o ReSubRuns(Tail(s), bad, rep)

sanitise_name(a_name) ==
    LET s1  == Unidecode(a_name)
        s2  == IF fopt.force_lower THEN Lower(s1) ELSE s1
        bad == IF fopt.no_space THEN InvalidCharacters \cup {" "}
               ELSE InvalidCharacters
        s3  == ReSubRuns(s2, bad, <<fopt.rep>>)
    IN  ReSubRuns(s3, {fopt.rep}, <<fopt.rep>>)

generate_vcard_filename(a_name, ext) == sanitise_name(a_name) \o ext

generate_group_dirname(a_name) == sanitise_name(a_name)

(***************************************************************************)
(* vcardlib: the Attribute Matcher (spec.md 4.1).                          *)
(***************************************************************************)
Kinds == {"fn", "n", "tel"}

\* case fold and accent fold
Normalise(v) == Lower(Unidecode(v))

IsPrefix(p, s) == Len(p) <= Len(s) /\ SubSeq(s, 1, Len(p)) = p

\* length of the longest common subsequence
RECURSIVE LCS(_, _)
LCS(a, b) ==
    IF a = <<>> \/ b = <<>> THEN 0
    ELSE IF Head(a) = Head(b) THEN 1 + LCS(Tail(a), Tail(b))
    ELSE LET x == LCS(Tail(a), b)
             y == LCS(a, Tail(b))
         IN  IF x >= y THEN x ELSE y

\* similarity score 0..100: twice the matched characters over the total length
Ratio(a, b) ==
    IF Len(a) + Len(b) = 0 THEN 100
    ELSE (200 * LCS(a, b)) \div (Len(a) + Len(b))

\* matches(valueA, valueB, config)
matches(valueA, valueB) ==
    LET a == Normalise(valueA)
        b == Normalise(valueB)
    IN  IF \/ opt.NO_MATCH_APPROX
           \/ Len(a) < opt.MATCH_APPROX_MIN_LENGTH
           \/ Len(b) < opt.MATCH_APPROX_MIN_LENGTH
        THEN a = b
        ELSE IF opt.MATCH_APPROX_SAME_FIRST_LETTER /\ Head(a) # Head(b)
        THEN FALSE
        ELSE IF opt.MATCH_APPROX_STARTSWITH
        THEN /\ (Len(a) - Len(b)) \in opt.MATCH_APPROX_MAX_DISTANCE
             /\ (IsPrefix(a, b) \/ IsPrefix(b, a))
        ELSE Ratio(a, b) >= opt.MATCH_APPROX_RATIO

(***************************************************************************)
(* vcardlib: the Pairwise Record Comparator (spec.md 4.2).                 *)
(***************************************************************************)
\* the attribute kinds a match attribute stands for ('names' is fn + n)
ExpandAlias(attr) == IF attr = "names" THEN {"fn", "n"} ELSE {attr}

MatchKinds == UNION {ExpandAlias(a) : a \in Range(opt.MATCH_ATTRIBUTES)}

recordsMatch(A, B) ==
    \E kind \in MatchKinds \cap Kinds :
        \E i \in 1..Len(A[kind]) : \E j \in 1..Len(B[kind]) :
            matches(A[kind][i], B[kind][j])

(***************************************************************************)
(* vcardlib: the Grouping Engine (spec.md 4.3), get_vcards_groups.         *)
(***************************************************************************)
\* the pairs of distinct positions of 1..n (self-pairs are excluded), in scan
\* order: every record is compared with every other one
PairsInOrder(n) ==
    [k \in 1..(n * (n - 1)) |->
        LET i == ((k - 1) \div (n - 1)) + 1
            x == ((k - 1) % (n - 1)) + 1
        IN  <<i, IF x < i THEN x ELSE x + 1>>]

\* Union gone wrong: only position j changes sets, its set stays behind
UnionMovesOne(rep, i, j) == [rep EXCEPT ![j] = rep[i]]

\* union of the sets of i and j: the set first visited keeps its representative
Union(rep, i, j) ==
    LET lo == IF rep[i] <= rep[j] THEN rep[i] ELSE rep[j]
        hi == IF rep[i] <= rep[j] THEN rep[j] ELSE rep[i]
    IN  [x \in DOMAIN rep |-> IF rep[x] = hi THEN lo ELSE rep[x]]

\* the union-find pass over the pairs from the k-th on
RECURSIVE UnionFind(_, _, _, _, _)
UnionFind(rep, pairs, k, keys, recs) ==
    IF k > Len(pairs) THEN rep
    ELSE LET i == pairs[k][1]
             j == pairs[k][2]
         IN  UnionFind(IF recordsMatch(recs[keys[i]], recs[keys[j]])
                       THEN Union(rep, i, j) ELSE rep,
                       pairs, k + 1, keys, recs)

\* the positions of the component whose representative is r, in input order
Members(rep, r) ==
    SelectSeq([i \in 1..Len(rep) |-> i], LAMBDA i : rep[i] = r)

\* get_vcards_groups(vcards): <<groups by name, ungrouped keys>>
get_vcards_groups(keys, recs) ==
    LET n    == Len(keys)
        rep  == UnionFind([i \in 1..n |-> i], PairsInOrder(n), 1, keys, recs)
        size(r) == Len(Members(rep, r))
        big  == {r \in 1..n : rep[r] = r /\ size(r) >= 2}
        grouped == [g \in {keys[r] : r \in big} |->
                      LET r == CHOOSE r \in big : keys[r] = g
                          m == Members(rep, r)
                      IN  [x \in 1..Len(m) |-> keys[m[x]]]]
        single == SelectSeq([i \in 1..n |-> i], LAMBDA i : size(rep[i]) = 1)
    IN  <<grouped, [x \in 1..Len(single) |-> keys[single[x]]]>>

(***************************************************************************)
(* vcardlib: the Merge Resolver (spec.md 4.4) and the Record Builder.      *)
(***************************************************************************)
\* the values of one kind across the records, in member order
RECURSIVE ValuesOf(_, _)
ValuesOf(records, kind) ==
    IF records = <<>> THEN <<>>
    ELSE Head(records)[kind] \o ValuesOf(Tail(records), kind)

\* collect_attributes: union of the members' values per kind, deduplicated
collect_attributes(vcards_to_merge) ==
    [kind \in Kinds |-> Dedup(ValuesOf(vcards_to_merge, kind))]

\* the longest of the candidate names, the first seen among equals
RECURSIVE Longest(_)
Longest(names) ==
    IF Len(names) = 1 THEN names[1]
    ELSE LET rest == Longest(Tail(names))
         IN  IF Len(Head(names)) >= Len(rest) THEN Head(names) ELSE rest

\* the canonical name: the longest fn, else the first n; None without a name
select_name(attributes) ==
    IF attributes.fn # <<>> THEN Longest(attributes.fn)
    ELSE IF attributes.n # <<>> THEN attributes.n[1]
    ELSE None

\* set_name(attributes): the selected name becomes the fn and n attributes
set_name(attributes) ==
    LET name == select_name(attributes)
    IN  IF name = None THEN attributes
        ELSE [attributes EXCEPT !.fn = <<name>>, !.n = <<name>>]

\* build_vcard(attributes): a record of the resolved attribute set
build_vcard(attributes) == [kind \in Kinds |-> attributes[kind]]

(***************************************************************************)
(* The command line: init_parser and the values the runs are given.        *)
(***************************************************************************)
\* the values of vcardlib's options before main() sets them
LibOptions ==
    [NO_MATCH_APPROX |-> FALSE,
     MATCH_ATTRIBUTES |-> <<"names", "tel">>,
     MATCH_APPROX_MIN_LENGTH |-> 5,
     MATCH_APPROX_SAME_FIRST_LETTER |-> TRUE,
     MATCH_APPROX_STARTSWITH |-> FALSE,
     MATCH_APPROX_MAX_DISTANCE |-> (-3)..3,
     MATCH_APPROX_RATIO |-> 100]

\* the OPTION_*_FILENAME globals as the module sets them
FileOptions == [no_space |-> FALSE, force_lower |-> FALSE, rep |-> "_"]

\* the namespace parse_args() returns when only DESTDIR and FILES are given
DefaultArgs ==
    [dest_dir |-> <<"o">>,
     vcard_extension |-> <<".vcard">>,
     group_vcards |-> FALSE,
     merge_vcards |-> FALSE,
     no_match_approx |-> FALSE,
     no_overwrite_names |-> FALSE,
     match_attributes |-> LibOptions.MATCH_ATTRIBUTES,
     match_ratio |-> 100,
     match_min_length |-> 5,
     match_max_distance |-> 3,
     no_match_same_first_letter |-> FALSE,
     match_startswith |-> FALSE,
     no_space_in_filename |-> FALSE,
     force_lower_case_in_filename |-> FALSE,
     rep_invalid_fn_char_by |-> "_"]

\* -g / -m, -n and DESTDIR with or without a trailing slash
ModeArgs ==
    {[DefaultArgs EXCEPT !.group_vcards = g, !.merge_vcards = m,
                         !.no_overwrite_names = n, !.dest_dir = d] :
        g \in BOOLEAN, m \in BOOLEAN, n \in BOOLEAN,
        d \in {<<"o">>, <<"o", "/">>}}

\* -a: the values given are appended to the default list
WithAttributes(a, given) ==
    [a EXCEPT !.match_attributes = LibOptions.MATCH_ATTRIBUTES \o given]

\* the matching set-ups of the main runs: the defaults, startswith with a
\* distance of 1 on names, a ratio of 60 on names
MainArgs ==
    UNION {{a,
            [WithAttributes(a, <<"names">>) EXCEPT !.match_startswith = TRUE,
                !.match_max_distance = 1, !.match_min_length = 1],
            [WithAttributes(a, <<"names">>) EXCEPT !.match_ratio = 60,
                !.match_min_length = 1]} : a \in ModeArgs}

\* every matching set-up within the bounds
MatchArgs ==
    {[WithAttributes(DefaultArgs, given) EXCEPT
         !.no_match_approx = x, !.match_min_length = i,
         !.no_match_same_first_letter = f, !.match_startswith = s,
         !.match_max_distance = d, !.match_ratio = t] :
        given \in {<<>>, <<"names">>},
        x \in BOOLEAN, i \in {1, 2}, f \in BOOLEAN, s \in BOOLEAN,
        d \in 0..MaxDistance, t \in {60, 100}}

\* every filename set-up, in each mode
FileArgs ==
    {[DefaultArgs EXCEPT !.group_vcards = g, !.merge_vcards = m,
         !.no_space_in_filename = ns, !.force_lower_case_in_filename = lc,
         !.rep_invalid_fn_char_by = r] :
        g \in BOOLEAN, m \in BOOLEAN, ns \in BOOLEAN, lc \in BOOLEAN,
        r \in {"_", "-"}}

\* Python's range(a, b), as a set
PyRange(a, b) == a..(b - 1)

\* the accepted length differences main() installs for --match-max-distance d
MaxDistanceWindow(d) == PyRange(-d, d)

(***************************************************************************)
(* The records the parser returns.                                         *)
(***************************************************************************)
\* a parsed record: the display name is the key, fn and n carry it
MakeRecord(name, tel) == [fn |-> <<name>>, n |-> <<name>>, tel |-> tel]

\* display names of the main runs
NameUniverse == {<<"a">>, <<"a", "b">>, <<"a", "b", "c">>, <<"A", "b">>}

\* display names of the filename runs
FileNameUniverse ==
    {<<"a", m, "b">> : m \in {".", "/", "_", " "}} \cup {<<"A", ".", "b">>}

\* the tel values of one record
TelUniverse == {<<>>, << <<"1">> >>, << <<"2">> >>}

\* the sequences of at most MaxRecords distinct names of U
KeySequences(U) ==
    {k \in UNION {[1..n -> U] : n \in 0..MaxRecords} :
        \A i, j \in 1..Len(k) : i # j => k[i] # k[j]}

(***************************************************************************)
(* The state machine of main().                                            *)
(***************************************************************************)
Init ==
    /\ pc = "start"
    /\ args = None
    /\ opt = LibOptions
    /\ fopt = FileOptions
    /\ order = <<>>
    /\ vcards = <<>>
    /\ vcards_grouped = <<>>
    /\ vcards_not_grouped = <<>>
    /\ todo = <<>>
    /\ dirs = {}
    /\ files = <<>>
    /\ written = <<>>
    /\ handled = <<>>
    /\ merged = <<>>
    /\ status = -1
    /\ err = ""
    /\ interrupted = FALSE
    /\ cmp = None

\* the process ends with exit status code
Exit(code) == pc' = "exit" /\ status' = code

\* main() returns
Done == pc' = "done" /\ status' = 0

\* parser.parse_args() returns the namespace a
ParseArgs(ArgSet) ==
    /\ pc = "start"
    /\ \E a \in ArgSet : args' = a
    /\ pc' = "setup"
    /\ UNCHANGED <<opt, fopt, order, vcards, vcards_grouped, vcards_not_grouped,
                   todo, dirs, files, written, handled, merged, status, err,
                   interrupted, cmp>>

\* parser.parse_args() rejects the command line (a threshold that is no integer,
\* an unknown option, a missing DESTDIR): argparse reports it and exits with 2
ParseArgsError ==
    /\ pc = "start"
    /\ Exit(2)
    /\ UNCHANGED <<args, opt, fopt, order, vcards, vcards_grouped,
                   vcards_not_grouped, todo, dirs, files, written, handled,
                   merged, err, interrupted, cmp>>

\* main(), lines 201-244: the options are copied into the globals
SetupOptions ==
    /\ pc = "setup"
    /\ opt' =
        [NO_MATCH_APPROX |-> args.no_match_approx,
         MATCH_ATTRIBUTES |->
            IF /\ args.match_attributes # <<>>
               /\ args.match_attributes # opt.MATCH_ATTRIBUTES
            THEN SubSeq(args.match_attributes, Len(opt.MATCH_ATTRIBUTES) + 1,
                        Len(args.match_attributes))
            ELSE opt.MATCH_ATTRIBUTES,
         MATCH_APPROX_MIN_LENGTH |->
            IF args.match_min_length # 0 THEN args.match_min_length
            ELSE opt.MATCH_APPROX_MIN_LENGTH,
         MATCH_APPROX_SAME_FIRST_LETTER |-> ~args.no_match_same_first_letter,
         MATCH_APPROX_STARTSWITH |-> args.match_startswith,
         MATCH_APPROX_MAX_DISTANCE |->
            IF args.match_max_distance # 0
            THEN MaxDistanceWindow(args.match_max_distance)
            ELSE opt.MATCH_APPROX_MAX_DISTANCE,
         MATCH_APPROX_RATIO |->
            IF args.match_ratio # 0 THEN args.match_ratio
            ELSE opt.MATCH_APPROX_RATIO]
    /\ fopt' = [no_space |-> args.no_space_in_filename,
                force_lower |-> args.force_lower_case_in_filename,
                rep |-> args.rep_invalid_fn_char_by]
    /\ pc' = "checkdest"
    /\ UNCHANGED <<args, order, vcards, vcards_grouped, vcards_not_grouped,
                   todo, dirs, files, written, handled, merged, status, err,
                   interrupted, cmp>>

\* os.path.split: DESTDIR without its trailing slash
StripSlash(d) == IF d[Len(d)] = "/" THEN SubSeq(d, 1, Len(d) - 1) ELSE d

\* main(), lines 247-260: DESTDIR must not exist, and is created
CheckDest ==
    /\ pc = "checkdest"
    /\ \E exists \in BOOLEAN :
        IF exists
        THEN /\ Exit(2)
             /\ UNCHANGED <<args, dirs>>
        ELSE /\ args' = [args EXCEPT !.dest_dir = StripSlash(args.dest_dir)]
             /\ dirs' = dirs \cup {<<>>}
             /\ pc' = "checkfiles"
             /\ UNCHANGED status
    /\ UNCHANGED <<opt, fopt, order, vcards, vcards_grouped, vcards_not_grouped,
                   todo, files, written, handled, merged, err, interrupted, cmp>>

\* main(), lines 262-271: every FILES argument must be a regular file
CheckFiles ==
    /\ pc = "checkfiles"
    /\ \E found \in {"regular", "missing", "not a file"} :
        IF found = "regular"
        THEN pc' = "parse" /\ UNCHANGED status
        ELSE Exit(2)
    /\ UNCHANGED <<args, opt, fopt, order, vcards, vcards_grouped,
                   vcards_not_grouped, todo, dirs, files, written, handled,
                   merged, err, interrupted, cmp>>

\* main(), lines 287-294 and the branch of 297 / 345: get_vcards_from_files
\* returns the records, with display names of U as keys
Parse(U) ==
    /\ pc = "parse"
    /\ \E keys \in KeySequences(U) : \E tels \in [1..Len(keys) -> TelUniverse] :
        /\ order' = keys
        /\ vcards' = [k \in Range(keys) |->
                        MakeRecord(k, tels[CHOOSE i \in 1..Len(keys) : keys[i] = k])]
        /\ handled' = [k \in Range(keys) |-> 0]
        /\ IF args.group_vcards \/ args.merge_vcards
           THEN pc' = "group" /\ todo' = <<>> /\ UNCHANGED status
           ELSE IF keys # <<>>
           THEN pc' = "nogroup" /\ todo' = keys /\ UNCHANGED status
           ELSE Done /\ todo' = <<>>
    /\ UNCHANGED <<args, opt, fopt, vcards_grouped, vcards_not_grouped, dirs,
                   files, written, merged, err, interrupted, cmp>>

\* AfterGroups gone wrong: the ungrouped records are never written
AfterGroupsSkipsUngrouped(not_grouped) == Done /\ todo' = <<>>

\* what main() does after the group loop (line 336): the ungrouped records, if any
AfterGroups(not_grouped) ==
    IF not_grouped # <<>>
    THEN pc' = "ungrouped" /\ todo' = not_grouped /\ UNCHANGED status
    ELSE Done /\ todo' = <<>>

\* main(), lines 298-302: the groups, and the sorted group names to loop over
EnterGroupLoop(result) ==
    /\ vcards_grouped' = result[1]
    /\ vcards_not_grouped' = result[2]
    /\ IF DOMAIN result[1] # {}
       THEN pc' = "loop" /\ todo' = SortedSeq(DOMAIN result[1]) /\ UNCHANGED status
       ELSE AfterGroups(result[2])
    /\ UNCHANGED <<args, opt, fopt, order, vcards, dirs, files, written,
                   handled, merged, err, interrupted, cmp>>

\* main(), line 298: get_vcards_groups(vcards)
Group ==
    /\ pc = "group"
    /\ \E result \in {get_vcards_groups(order, vcards)} : EnterGroupLoop(result)

\* the results of a get_vcards_groups that breaks its contract: an ungrouped
\* key reported as a group of one, or a group cut down to its first member
FaultyResults(result) ==
    {<<[g \in DOMAIN result[1] \cup {k} |->
            IF g = k THEN <<k>> ELSE result[1][g]],
       SelectSeq(result[2], LAMBDA x : x # k)>> : k \in Range(result[2])}
    \cup
    {<<[g \in DOMAIN result[1] |->
            IF g = k THEN <<k>> ELSE result[1][g]],
       result[2]>> : k \in DOMAIN result[1]}

\* main(), line 298, with a get_vcards_groups that may break its contract
GroupFaulty ==
    /\ pc = "group"
    /\ \E good \in {get_vcards_groups(order, vcards)} :
       \E result \in {good} \cup FaultyResults(good) :
          EnterGroupLoop(result)

\* write_vcard_to_file for each key of keys, to the path of the same position
RECURSIVE WriteKeys(_, _, _)
WriteKeys(fs, keys, paths) ==
    IF keys = <<>> THEN fs
    ELSE WriteKeys((Head(paths) :> vcards[Head(keys)]) @@ fs,
                   Tail(keys), Tail(paths))

\* the number of times key occurs in keys
Count(keys, key) == Cardinality({i \in 1..Len(keys) : keys[i] = key})

\* vcards_to_merge gone wrong: the first key of the group is left out
vcards_to_merge_from_second(g_list) ==
    [i \in 1..(Len(g_list) - 1) |-> vcards[g_list[i + 1]]]

\* main(), lines 310-312: the records of the group's keys
vcards_to_merge(g_list) == [i \in 1..Len(g_list) |-> vcards[g_list[i]]]

\* main(), lines 314-318: collect the attributes, select a name, build
merge_vcards(g_list) ==
    build_vcard(set_name(collect_attributes(vcards_to_merge(g_list))))

\* IsGroup gone wrong: a group of one passes the guard
IsGroupOrSingle(g_list) == Len(g_list) >= 1

\* main(), line 303: the guard of the merge / group branch
IsGroup(g_list) == Len(g_list) > 1

\* main(), lines 302-333: one pass of the group loop
LoopGroup ==
    /\ pc = "loop"
    /\ todo # <<>>
    /\ LET g_name == Head(todo)
           g_list == vcards_grouped[g_name]
           dname  == generate_group_dirname(g_name)
           next   == /\ IF Tail(todo) # <<>>
                        THEN pc' = "loop" /\ todo' = Tail(todo) /\ UNCHANGED status
                        ELSE AfterGroups(vcards_not_grouped)
                     /\ handled' = [k \in DOMAIN handled |->
                                      handled[k] + Count(g_list, k)]
                     /\ UNCHANGED err
       IN  IF IsGroup(g_list)
           THEN IF args.merge_vcards
                THEN LET path == <<dname \o args.vcard_extension>>
                     IN  /\ files' = (path :> merge_vcards(g_list)) @@ files
                         /\ written' = Append(written, path)
                         /\ merged' = (g_name :> [members |-> vcards_to_merge(g_list),
                                                  vcard |-> merge_vcards(g_list)])
                                      @@ merged
                         /\ UNCHANGED dirs
                         /\ next
                ELSE IF <<dname>> \in dirs \/ <<dname>> \in DOMAIN files
                THEN \* makedirs(d_path) raises FileExistsError
                     /\ Exit(1)
                     /\ UNCHANGED <<todo, dirs, files, written, handled, merged, err>>
                ELSE LET PathOf(key) ==
                            <<dname, generate_vcard_filename(key, args.vcard_extension)>>
                     IN  /\ dirs' = dirs \cup {<<dname>>}
                         /\ files' = WriteKeys(files, g_list,
                                [i \in 1..Len(g_list) |-> PathOf(g_list[i])])
                         /\ written' = written \o
                                [i \in 1..Len(g_list) |-> PathOf(g_list[i])]
                         /\ UNCHANGED merged
                         /\ next
           ELSE \* raise RuntimeError("Only one vcard in group ...")
                /\ Exit(1)
                /\ err' = g_name
                /\ UNCHANGED <<todo, dirs, files, written, handled, merged>>
    /\ UNCHANGED <<args, opt, fopt, order, vcards, vcards_grouped,
                   vcards_not_grouped, interrupted, cmp>>

\* one write of a record to the root of DESTDIR
WriteRoot ==
    /\ todo # <<>>
    /\ LET key  == Head(todo)
           path == <<generate_vcard_filename(key, args.vcard_extension)>>
       IN  /\ files' = (path :> vcards[key]) @@ files
           /\ written' = Append(written, path)
           /\ handled' = [handled EXCEPT ![key] = @ + 1]
    /\ IF Tail(todo) # <<>>
       THEN pc' = pc /\ todo' = Tail(todo) /\ UNCHANGED status
       ELSE Done /\ todo' = <<>>
    /\ UNCHANGED <<args, opt, fopt, order, vcards, vcards_grouped,
                   vcards_not_grouped, dirs, merged, err, interrupted, cmp>>

\* main(), lines 336-342: one pass of the loop over vcards_not_grouped
WriteNotGrouped == pc = "ungrouped" /\ WriteRoot

\* main(), lines 345-350: one pass of the loop over vcards.items()
WriteNoGrouping == pc = "nogroup" /\ WriteRoot

\* the positions of main() inside its try block
Running == pc \notin {"done", "exit", "compared"}

\* Interrupt gone wrong: the handler exits with the status of the argument errors
InterruptExitsAsError ==
    /\ Running
    /\ interrupted' = TRUE
    /\ Exit(2)
    /\ UNCHANGED <<args, opt, fopt, order, vcards, vcards_grouped,
                   vcards_not_grouped, todo, dirs, files, written, handled,
                   merged, err, cmp>>

\* main(), lines 353-356: a KeyboardInterrupt ends the run
Interrupt ==
    /\ Running
    /\ interrupted' = TRUE
    /\ Exit(3)
    /\ UNCHANGED <<args, opt, fopt, order, vcards, vcards_grouped,
                   vcards_not_grouped, todo, dirs, files, written, handled,
                   merged, err, cmp>>

\* the comparator, as the grouping calls it, on one pair of records, both ways
Compare ==
    /\ pc = "checkdest"
    /\ \E a, b \in StringsOver({"a", "A", "b"}, 1, MaxLen) :
       \E t \in {<< <<"1">> >>, << <<"2">> >>} :
          LET A == MakeRecord(a, << <<"1">> >>)
              B == MakeRecord(b, t)
          IN  cmp' = [A |-> A, B |-> B,
                      ab |-> recordsMatch(A, B), ba |-> recordsMatch(B, A)]
    /\ pc' = "compared"
    /\ UNCHANGED <<args, opt, fopt, order, vcards, vcards_grouped,
                   vcards_not_grouped, todo, dirs, files, written, handled,
                   merged, status, err, interrupted>>

\* the steps of main() after parse_args
Steps(U) ==
    \/ ParseArgsError
    \/ SetupOptions
    \/ CheckDest
    \/ CheckFiles
    \/ Parse(U)
    \/ LoopGroup
    \/ WriteNotGrouped
    \/ WriteNoGrouping
    \/ Interrupt

\* a run of main()
Next == ParseArgs(MainArgs) \/ Steps(NameUniverse) \/ Group

Spec == Init /\ [][Next]_vars

\* a run of main() over a get_vcards_groups that may break its contract
NextFaulty == ParseArgs(MainArgs) \/ Steps(NameUniverse) \/ GroupFaulty

SpecFaulty == Init /\ [][NextFaulty]_vars

\* a run of main() over names that need sanitising, in every filename set-up
NextFiles == ParseArgs(FileArgs) \/ Steps(FileNameUniverse) \/ Group

SpecFiles == Init /\ [][NextFiles]_vars

\* the option set-up of main() followed by one comparison
NextMatch == ParseArgs(MatchArgs) \/ SetupOptions \/ Compare

SpecMatch == Init /\ [][NextMatch]_vars

(***************************************************************************)
(* Properties.                                                             *)
(***************************************************************************)
\* main() runs in group or merge mode and the groups have been computed
GroupsComputed ==
    /\ pc \in {"loop", "ungrouped", "done"}
    /\ args.group_vcards \/ args.merge_vcards

\* the number of groups and ungrouped entries that hold key
Occurrences(key) ==
    Count(vcards_not_grouped, key)
    + Cardinality(UNION {{<<g, i>> : i \in {x \in 1..Len(vcards_grouped[g]) :
                                               vcards_grouped[g][x] = key}} :
                         g \in DOMAIN vcards_grouped})

\* C1: the groups and the ungrouped keys cover the input keys exactly once
\* each, no other key appears, and a finished group or merge run has handled
\* every input record exactly once
C1_Partition ==
    GroupsComputed =>
        /\ \A key \in DOMAIN vcards : Occurrences(key) = 1
        /\ Range(vcards_not_grouped) \subseteq DOMAIN vcards
        /\ \A g \in DOMAIN vcards_grouped :
              Range(vcards_grouped[g]) \subseteq DOMAIN vcards
        /\ pc = "done" => \A key \in DOMAIN vcards : handled[key] = 1

\* a finished run that wrote a group and an ungrouped record
C1_Witness ==
    /\ GroupsComputed
    /\ pc = "done"
    /\ DOMAIN vcards_grouped # {}
    /\ vcards_not_grouped # <<>>

\* the comparator answers true on the two records, one way or the other
Matching(k1, k2) ==
    recordsMatch(vcards[k1], vcards[k2]) \/ recordsMatch(vcards[k2], vcards[k1])

\* the keys reachable from the keys of S through matching pairs
RECURSIVE Reachable(_)
Reachable(S) ==
    LET T == S \cup {k \in DOMAIN vcards : \E x \in S : x # k /\ Matching(x, k)}
    IN  IF T = S THEN S ELSE Reachable(T)

\* the two keys are members of one group
SameGroup(k1, k2) ==
    \E g \in DOMAIN vcards_grouped :
        {k1, k2} \subseteq Range(vcards_grouped[g])

\* C2: two records are in one group iff a chain of matching pairs links them,
\* and a record that matches no other is in no group and is ungrouped
C2_Components ==
    GroupsComputed =>
        \E reach \in {[k \in DOMAIN vcards |-> Reachable({k})]} :
           /\ \A k1, k2 \in DOMAIN vcards :
                 k1 # k2 => (SameGroup(k1, k2) <=> k2 \in reach[k1])
           /\ \A k \in DOMAIN vcards :
                 reach[k] = {k} =>
                    /\ k \in Range(vcards_not_grouped)
                    /\ \A g \in DOMAIN vcards_grouped :
                          k \notin Range(vcards_grouped[g])
           /\ \A g \in DOMAIN vcards_grouped : Len(vcards_grouped[g]) >= 2

\* a group of three in which two members do not match each other
C2_Witness ==
    /\ GroupsComputed
    /\ \E g \in DOMAIN vcards_grouped :
          /\ Len(vcards_grouped[g]) = 3
          /\ \E k1, k2 \in Range(vcards_grouped[g]) : k1 # k2 /\ ~Matching(k1, k2)

\* the attribute kinds that carry the name
NameKinds == {"fn", "n"}

\* the path of the merged file of group g
MergedPath(g) == <<generate_group_dirname(g) \o args.vcard_extension>>

\* C3: every value of every kind but the name kinds, of every member of a
\* merged group, is in the merged record that was built and written
C3_MergeNonLoss ==
    \A g \in DOMAIN merged :
        \A i \in 1..Len(vcards_grouped[g]) : \A kind \in Kinds \ NameKinds :
            LET member == vcards[vcards_grouped[g][i]]
            IN  /\ Range(member[kind]) \subseteq Range(merged[g].vcard[kind])
                /\ MergedPath(g) \in DOMAIN files
                /\ Range(member[kind]) \subseteq Range(files[MergedPath(g)][kind])

\* a merged record that carries the different tel values of two members
C3_Witness ==
    \E g \in DOMAIN merged :
        /\ Len(merged[g].vcard.tel) = 2
        /\ \A i \in 1..Len(vcards_grouped[g]) :
              Len(vcards[vcards_grouped[g][i]].tel) <= 1

\* C4: when the group loop meets a group of fewer than 2 members the run ends
\* with a fatal error that names the group key, and the step writes no file
\* and creates no directory
C4_SmallGroupIsFatal ==
    [][(/\ pc = "loop"
        /\ todo # <<>>
        /\ Len(vcards_grouped[Head(todo)]) <= 1
        /\ ~interrupted')
       => (/\ pc' = "exit"
           /\ status' = 1
           /\ err' = Head(todo)
           /\ files' = files
           /\ dirs' = dirs
           /\ written' = written
           /\ handled' = handled)]_vars

\* the fatal error was raised after an earlier group had been written
C4_Witness ==
    /\ pc = "exit"
    /\ status = 1
    /\ err # ""
    /\ Len(vcards_grouped[err]) = 1
    /\ written # <<>>

\* C5: when the run ends on an argument or precondition error, no directory
\* has been created and no file written
C5_NoIOBeforeAbort ==
    (pc = "exit" /\ status = 2) => (dirs = {} /\ files = <<>>)

\* C6: the merged record carries the selected name as fn and n, unless
\* no-overwrite-names is given: then it carries the members' own fn and n values
C6_NameOverwrite ==
    \A g \in DOMAIN merged :
        LET members == vcards_to_merge(vcards_grouped[g])
            collected == collect_attributes(members)
        IN  \A kind \in NameKinds :
               merged[g].vcard[kind] =
                  IF args.no_overwrite_names THEN Dedup(ValuesOf(members, kind))
                  ELSE <<select_name(collected)>>

\* C7: the comparator gives the same answer on (A, B) and on (B, A)
C7_Symmetry == pc = "compared" => cmp.ab = cmp.ba

\* C8: an interrupt ends the run with status 3, a status of no other exit, and
\* leaves the files and directories as they were
C8_Interrupt ==
    /\ [](interrupted => pc = "exit" /\ status = 3)
    /\ [](status = 3 => interrupted)
    /\ [](Running => ENABLED Interrupt)
    /\ [][interrupted' => (files' = files /\ dirs' = dirs)]_vars

\* an interrupt arrived after a file had been written
C8_Witness == interrupted /\ status = 3 /\ files # <<>>

\* C9: for --match-max-distance d > 0 the window main() installs is -d..d
C9_SymmetricWindow ==
    (pc \in {"checkdest", "compared"} /\ args.match_max_distance > 0) =>
        opt.MATCH_APPROX_MAX_DISTANCE =
            (-args.match_max_distance)..args.match_max_distance

\* C10: the writes of a run target pairwise distinct paths, so that the files
\* present are as many as the writes performed
C10_DistinctPaths ==
    /\ \A i, j \in 1..Len(written) : i # j => written[i] # written[j]
    /\ Cardinality(DOMAIN files) = Len(written)

====
